---- MODULE Spec2Model ----
(***************************************************************************)
(* Model of src/dijsktra.c: Dijkstra's single-source shortest paths from   *)
(* vertex 0 over MPI.  The n x n weight matrix is partitioned by columns,  *)
(* each of the p processes owning loc_n = n / p columns; every round each  *)
(* process finds its local minimum, MPI_Allreduce(MPI_MINLOC) picks the    *)
(* global one, and every process relaxes its own columns through it.       *)
(*                                                                         *)
(* Each MPI process is a process of the model with its own program         *)
(* position pc[r] and its own copies of the local variables of main() and  *)
(* Dijkstra().  Arrays are functions over 0-based index ranges, the        *)
(* matrices are kept flattened as the code keeps them (A[n * i + j]).      *)
(***************************************************************************)
EXTENDS Integers, Sequences, FiniteSets, TLC

INFINITY == 1000000

\* Bounds of the checked inputs.
MaxN == 4        \* vertex counts 1..MaxN
MaxW == 1        \* finite edge weights 0..MaxW
MaxEdges == 3    \* at most this many edges in a generated graph
MaxFairEdges == 2  \* the same, for the runs checked under fairness

VARIABLES
    n,            \* number of vertices, as broadcast by Read_n
    p,            \* number of processes (MPI_Comm_size)
    mat,          \* the input matrix held by rank 0, row-major, mat[i * n + j]
    pc,           \* pc[r]: where process r is in main() / Dijkstra()
    loc_mat,      \* loc_mat[r]: column block of r, loc_mat[r][i * loc_n + j]
    loc_dist,     \* loc_dist[r][v]
    loc_pred,     \* loc_pred[r][v]
    loc_known,    \* loc_known[r][v], 0 or 1
    i,            \* i[r]: loop counter of the for loop of Dijkstra()
    my_min,       \* my_min[r] = <<distance, global vertex>>
    glbl_min,     \* glbl_min[r] = <<distance, global vertex>>
    sent,         \* sent[r]: the send buffers r has handed to MPI_Allreduce so far
    global_dist,  \* rank 0's gathered distances
    global_pred   \* rank 0's gathered predecessors

vars == <<n, p, mat, pc, loc_mat, loc_dist, loc_pred, loc_known, i, my_min,
          glbl_min, sent, global_dist, global_pred>>

Ranks == 0 .. (p - 1)

\* main(): loc_n = n / p (C integer division).
loc_n == n \div p

\* C's % operator (truncating; the dividend may be -1).
CMod(a, b) == IF a >= 0 THEN a % b ELSE 0 - ((0 - a) % b)

----------------------------------------------------------------------------
\* Inputs.

\* The n = 4 example graph.
ScenarioMat ==
    <<0, 1, 4, INFINITY,
      INFINITY, 0, 2, 5,
      INFINITY, INFINITY, 0, 1,
      INFINITY, INFINITY, INFINITY, 0>>

ZeroBased(s) == [k \in 0 .. (Len(s) - 1) |-> s[k + 1]]

OffDiagonal(m) == {e \in (0 .. (m - 1)) \X (0 .. (m - 1)) : e[1] # e[2]}

EdgeSets(m, maxE) == {E \in SUBSET OffDiagonal(m) : Cardinality(E) <= maxE}

\* Weight 0 on the diagonal, INFINITY where there is no edge.
MatrixOf(m, E, wt) ==
    [k \in 0 .. (m * m - 1) |->
        LET a == k \div m
            b == k % m
        IN  IF a = b THEN 0
            ELSE IF <<a, b>> \in E THEN wt[<<a, b>>]
            ELSE INFINITY]

UninitArray(len) == [k \in 0 .. (len - 1) |-> 0]

\* Values an uninitialized int that is read may turn out to hold.
Garbage == {0, INFINITY}

----------------------------------------------------------------------------
\* Build_blk_col_type + MPI_Scatter: process r receives, for each of the n
\* rows, the loc_n ints starting at column r * loc_n, stored row after row.
BlockColumn(r) ==
    [k \in 0 .. (n * loc_n - 1) |->
        mat[(k \div loc_n) * n + r * loc_n + (k % loc_n)]]

\* (variant: a vertex at the same distance replaces the current choice too)
ShorterOrEqual(d, shortest_dist) == d <= shortest_dist

\* Find_min_dist: the scan over the local vertices.  A not-known vertex
\* replaces the current choice only when its distance is strictly below
\* shortest_dist, which starts at INFINITY; loc_u starts at -1.
Shorter(d, shortest_dist) == d < shortest_dist

RECURSIVE ScanMin(_, _, _, _, _)
ScanMin(dist, known, loc_v, shortest_dist, loc_u) ==
    IF loc_v >= loc_n THEN loc_u
    ELSE IF known[loc_v] = 0 /\ Shorter(dist[loc_v], shortest_dist)
         THEN ScanMin(dist, known, loc_v + 1, dist[loc_v], loc_v)
         ELSE ScanMin(dist, known, loc_v + 1, shortest_dist, loc_u)

Find_min_dist(dist, known) == ScanMin(dist, known, 0, INFINITY, 0 - 1)

\* The send buffer of the round: my_min[0], my_min[1].
LocalMin(r, dist, loc_u) ==
    IF loc_u # 0 - 1
    THEN <<dist[loc_u], loc_u + r * loc_n>>
    ELSE <<INFINITY, 0 - 1>>

\* (variant: among equal values the greatest index)
MinLocLastIndex(pairs) ==
    CHOOSE m \in pairs :
        \A q \in pairs : m[1] < q[1] \/ (m[1] = q[1] /\ m[2] >= q[2])

\* MPI_MINLOC over MPI_2INT pairs: least value, and among equal values the
\* least index.
MinLoc(pairs) ==
    CHOOSE m \in pairs :
        \A q \in pairs : m[1] < q[1] \/ (m[1] = q[1] /\ m[2] <= q[2])

\* (variant: the send buffer of q as it is now, whatever the round)
ContributionLatest(q, k) == sent[q][Len(sent[q])]

\* What process q contributed to the Allreduce of round k (k = 0, 1, ...).
Contribution(q, k) == sent[q][k + 1]

\* (variant: the test made on the process's own candidate)
ExhaustedLocally(r, g) == my_min[r][2] = 0 - 1

\* The break test after the Allreduce.
Exhausted(r, g) == g[2] = 0 - 1

\* (variant: the winner is not marked)
MarkNothing(known, r, glbl_u) == known

\* loc_u = glbl_min[1] % loc_n; loc_known[loc_u] = 1: executed by every
\* process, whichever process owns glbl_u.
MarkKnown(known, r, glbl_u) ==
    [known EXCEPT ![CMod(glbl_u, loc_n)] = 1]

\* new_dist of the relaxation loop, read from row glbl_u of the column block.
\* Both operands are at most INFINITY for the inputs checked, so the int sum
\* stays far below 2^31.
NewDist(blk, glbl_u, dist_glbl_u, loc_v) ==
    dist_glbl_u + blk[glbl_u * loc_n + loc_v]

\* (variant: neither the test of loc_known nor a strict comparison)
ImprovesOrEqualAnyVertex(blk, dist, known, glbl_u, dist_glbl_u, loc_v) ==
    NewDist(blk, glbl_u, dist_glbl_u, loc_v) <= dist[loc_v]

\* (variant: an equal new_dist also updates)
ImprovesOrEqual(blk, dist, known, glbl_u, dist_glbl_u, loc_v) ==
    /\ known[loc_v] = 0
    /\ NewDist(blk, glbl_u, dist_glbl_u, loc_v) <= dist[loc_v]

\* (variant: without the test of loc_known)
ImprovesAnyVertex(blk, dist, known, glbl_u, dist_glbl_u, loc_v) ==
    NewDist(blk, glbl_u, dist_glbl_u, loc_v) < dist[loc_v]

\* The two tests guarding the update of a local vertex.
Improves(blk, dist, known, glbl_u, dist_glbl_u, loc_v) ==
    /\ known[loc_v] = 0
    /\ NewDist(blk, glbl_u, dist_glbl_u, loc_v) < dist[loc_v]

\* loc_dist and loc_pred after the relaxation loop.
RelaxDist(blk, dist, known, glbl_u, dist_glbl_u) ==
    [v \in 0 .. (loc_n - 1) |->
        IF Improves(blk, dist, known, glbl_u, dist_glbl_u, v)
        THEN NewDist(blk, glbl_u, dist_glbl_u, v)
        ELSE dist[v]]

RelaxPred(blk, dist, pred, known, glbl_u, dist_glbl_u) ==
    [v \in 0 .. (loc_n - 1) |->
        IF Improves(blk, dist, known, glbl_u, dist_glbl_u, v)
        THEN glbl_u
        ELSE pred[v]]

\* (variant: local index 0 is marked on every process)
InitKnownLocalZero(r) == [v \in 0 .. (loc_n - 1) |-> IF v = 0 THEN 1 ELSE 0]

\* Dijkstra_Init: the three arrays of process r.
InitKnown(r) == [v \in 0 .. (loc_n - 1) |-> IF r = 0 /\ v = 0 THEN 1 ELSE 0]
InitDist(blk) == [v \in 0 .. (loc_n - 1) |-> blk[0 * loc_n + v]]
InitPred == [v \in 0 .. (loc_n - 1) |-> 0]

\* Print_paths, the while loop for one vertex: path[count] = w; count++;
\* w = global_pred[w], until w is 0.  path has room for n ints: a walk that
\* has not reached 0 after n entries overruns the buffer.
RECURSIVE PathWalk(_, _, _)
PathWalk(pred, w, path) ==
    IF w = 0 THEN [path |-> path, overrun |-> FALSE]
    ELSE IF Len(path) >= n THEN [path |-> path, overrun |-> TRUE]
    ELSE PathWalk(pred, pred[w], Append(path, w))

\* Print_paths, the line of vertex v: "0" and then path[count - 1] .. path[0].
PrintedPath(pred, v) ==
    LET path == PathWalk(pred, v, <<>>).path
    IN  <<0>> \o [k \in 1 .. Len(path) |-> path[Len(path) + 1 - k]]

----------------------------------------------------------------------------
\* The processes after MPI_Init, MPI_Comm_rank, MPI_Comm_size and Read_n:
\* nothing is allocated or written yet.
Started ==
    /\ pc = [r \in Ranks |-> "start"]
    /\ loc_mat = [r \in Ranks |-> UninitArray(n * loc_n)]
    /\ loc_dist = [r \in Ranks |-> UninitArray(loc_n)]
    /\ loc_pred = [r \in Ranks |-> UninitArray(loc_n)]
    /\ loc_known = [r \in Ranks |-> UninitArray(loc_n)]
    /\ i = [r \in Ranks |-> 0]
    /\ my_min = [r \in Ranks |-> <<0, 0>>]
    /\ glbl_min = [r \in Ranks |-> <<0, 0>>]
    /\ sent = [r \in Ranks |-> <<>>]
    /\ global_dist = UninitArray(n)
    /\ global_pred = UninitArray(n)

\* The state of every process after MPI_Init, MPI_Comm_rank, MPI_Comm_size
\* and Read_n, for the graphs of at most maxE edges and the example graph.
InitWith(maxE) ==
    /\ \E m \in 1 .. MaxN :
         /\ n = m
         /\ p \in 1 .. m
         /\ \/ \E E \in EdgeSets(m, maxE) : \E wt \in [E -> 0 .. MaxW] :
                 mat = MatrixOf(m, E, wt)
            \/ m = 4 /\ mat = ZeroBased(ScenarioMat)
    /\ Started

Init == InitWith(MaxEdges)

InitFair == InitWith(MaxFairEdges)

\* The same start for graphs whose edges weigh 0 or INFINITY - 1, the
\* largest weight that is not the no-edge sentinel.
InitHeavy ==
    /\ \E m \in 1 .. MaxN :
         /\ n = m
         /\ p \in 1 .. m
         /\ \E E \in EdgeSets(m, MaxFairEdges) :
                \E wt \in [E -> {0, INFINITY - 1}] : mat = MatrixOf(m, E, wt)
    /\ Started

\* main(): one of the mallocs of loc_mat, loc_dist, loc_pred returns NULL; the
\* process prints the message and calls MPI_Finalize.  It calls no MPI_Abort.
AllocFail(r) ==
    /\ pc[r] = "start"
    /\ pc' = [pc EXCEPT ![r] = "finalize"]
    /\ UNCHANGED <<n, p, mat, loc_mat, loc_dist, loc_pred, loc_known, i,
                   my_min, glbl_min, sent, global_dist, global_pred>>

\* main(): MPI_Finalize returns and the process runs exit(-1).  Whether
\* MPI_Finalize returns while other processes are still running is left to
\* the MPI library, so this step may or may not be taken.
Exit(r) ==
    /\ pc[r] = "finalize"
    /\ pc' = [pc EXCEPT ![r] = "exited"]
    /\ UNCHANGED <<n, p, mat, loc_mat, loc_dist, loc_pred, loc_known, i,
                   my_min, glbl_min, sent, global_dist, global_pred>>

\* main() up to and including Read_matrix: the mallocs, Build_blk_col_type and
\* the MPI_Scatter rooted at rank 0.  There is no test of n % p.
Read_matrix(r) ==
    /\ pc[r] = "start"
    /\ r # 0 => pc[0] \notin {"start", "finalize", "exited"}
    /\ loc_mat' = [loc_mat EXCEPT ![r] = BlockColumn(r)]
    /\ pc' = [pc EXCEPT ![r] = "init"]
    /\ UNCHANGED <<n, p, mat, loc_dist, loc_pred, loc_known, i, my_min,
                   glbl_min, sent, global_dist, global_pred>>

\* Dijkstra(): malloc of loc_known and Dijkstra_Init.
Dijkstra_Init(r) ==
    /\ pc[r] = "init"
    /\ loc_known' = [loc_known EXCEPT ![r] = InitKnown(r)]
    /\ loc_dist' = [loc_dist EXCEPT ![r] = InitDist(loc_mat[r])]
    /\ loc_pred' = [loc_pred EXCEPT ![r] = InitPred]
    /\ i' = [i EXCEPT ![r] = 0]
    /\ pc' = [pc EXCEPT ![r] = "loop"]
    /\ UNCHANGED <<n, p, mat, loc_mat, my_min, glbl_min, sent, global_dist,
                   global_pred>>

\* Top of the for loop: the test i < n - 1, Find_min_dist, filling my_min and
\* entering MPI_Allreduce; or leaving the loop.
LocalMinStep(r) ==
    /\ pc[r] = "loop"
    /\ IF i[r] < n - 1
       THEN LET loc_u == Find_min_dist(loc_dist[r], loc_known[r])
            IN  /\ my_min' = [my_min EXCEPT ![r] = LocalMin(r, loc_dist[r], loc_u)]
                /\ sent' = [sent EXCEPT ![r] =
                                Append(@, LocalMin(r, loc_dist[r], loc_u))]
                /\ pc' = [pc EXCEPT ![r] = "reduce"]
       ELSE /\ pc' = [pc EXCEPT ![r] = "done"]
            /\ UNCHANGED <<my_min, sent>>
    /\ UNCHANGED <<n, p, mat, loc_mat, loc_dist, loc_pred, loc_known, i,
                   glbl_min, global_dist, global_pred>>

\* MPI_Allreduce is a rendezvous: the one of round k returns to a process
\* once every process has entered it.
AllArrived(k) == \A q \in Ranks : Len(sent[q]) >= k + 1

\* MPI_Allreduce returns; the break test; loc_known[loc_u] = 1.
ReduceStep(r) ==
    /\ pc[r] = "reduce"
    /\ AllArrived(i[r])
    /\ LET g == MinLoc({Contribution(q, i[r]) : q \in Ranks})
       IN  /\ glbl_min' = [glbl_min EXCEPT ![r] = g]
           /\ IF Exhausted(r, g)
              THEN /\ pc' = [pc EXCEPT ![r] = "done"]
                   /\ UNCHANGED loc_known
              ELSE /\ loc_known' = [loc_known EXCEPT ![r] = MarkKnown(@, r, g[2])]
                   /\ pc' = [pc EXCEPT ![r] = "relax"]
    /\ UNCHANGED <<n, p, mat, loc_mat, loc_dist, loc_pred, i, my_min, sent,
                   global_dist, global_pred>>

\* The relaxation loop over the local vertices, and i++.
RelaxStep(r) ==
    /\ pc[r] = "relax"
    /\ loc_dist' = [loc_dist EXCEPT ![r] =
           RelaxDist(loc_mat[r], loc_dist[r], loc_known[r],
                     glbl_min[r][2], glbl_min[r][1])]
    /\ loc_pred' = [loc_pred EXCEPT ![r] =
           RelaxPred(loc_mat[r], loc_dist[r], loc_pred[r], loc_known[r],
                     glbl_min[r][2], glbl_min[r][1])]
    /\ i' = [i EXCEPT ![r] = @ + 1]
    /\ pc' = [pc EXCEPT ![r] = "loop"]
    /\ UNCHANGED <<n, p, mat, loc_mat, loc_known, my_min, glbl_min, sent,
                   global_dist, global_pred>>

\* The two MPI_Gather calls of main(): rank 0 receives loc_n ints from each of
\* the p processes; the ints of global_dist / global_pred beyond p * loc_n are
\* never written.
Gather ==
    /\ \A r \in Ranks : pc[r] = "done"
    /\ \E gd \in [0 .. (n - 1) -> Garbage], gp \in [0 .. (n - 1) -> Garbage] :
         /\ global_dist' = [v \in 0 .. (n - 1) |->
                IF v < p * loc_n THEN loc_dist[v \div loc_n][v % loc_n]
                ELSE gd[v]]
         /\ global_pred' = [v \in 0 .. (n - 1) |->
                IF v < p * loc_n THEN loc_pred[v \div loc_n][v % loc_n]
                ELSE gp[v]]
    /\ pc' = [r \in Ranks |-> "finished"]
    /\ UNCHANGED <<n, p, mat, loc_mat, loc_dist, loc_pred, loc_known, i,
                   my_min, glbl_min, sent>>

Step(r) ==
    \/ Read_matrix(r)
    \/ Dijkstra_Init(r)
    \/ LocalMinStep(r)
    \/ ReduceStep(r)
    \/ RelaxStep(r)

Next ==
    \/ \E r \in Ranks : Step(r)
    \/ Gather

Spec == Init /\ [][Next]_vars

\* The runs in which a malloc of main() may fail.
NextAlloc ==
    \/ Next
    \/ \E r \in Ranks : AllocFail(r)
    \/ \E r \in Ranks : Exit(r)

AllocSpec == InitFair /\ [][NextAlloc]_vars

\* The runs on the graphs of heavy edges.
HeavySpec == InitHeavy /\ [][Next]_vars

\* Every MPI process keeps running: a process that can take a step
\* eventually takes one.
FairSpec ==
    /\ InitFair /\ [][Next]_vars
    /\ \A r \in 0 .. (MaxN - 1) : WF_vars(r \in Ranks /\ Step(r))
    /\ WF_vars(Gather)

----------------------------------------------------------------------------
\* Vocabulary of the properties.

\* p divides n.
ValidP == n % p = 0

Vertices == 0 .. (n - 1)

\* The process owning global vertex v and v's index there.
Owner(v) == v \div loc_n
Local(v) == v % loc_n

\* Process r has run Dijkstra_Init.
Initialized(r) == pc[r] \in {"loop", "reduce", "relax", "done", "finished"}

Finished == \A r \in Ranks : pc[r] = "finished"

\* Sequential Dijkstra from vertex 0 on mat: the reference.
RECURSIVE SeqRounds(_, _, _)
SeqRounds(dist, known, k) ==
    LET cand == {v \in Vertices : v \notin known /\ dist[v] < INFINITY}
    IN  IF k = 0 \/ cand = {} THEN dist
        ELSE LET u == CHOOSE u \in cand :
                        \A v \in cand : dist[u] < dist[v] \/ (dist[u] = dist[v] /\ u <= v)
                 nd == [v \in Vertices |->
                          IF v \notin known /\ v # u /\ dist[u] + mat[u * n + v] < dist[v]
                          THEN dist[u] + mat[u * n + v]
                          ELSE dist[v]]
             IN  SeqRounds(nd, known \cup {u}, k - 1)

SeqDijkstra == SeqRounds([v \in Vertices |-> mat[v]], {0}, n - 1)

----------------------------------------------------------------------------
\* C1: for every valid p the gathered distance array equals the distance
\* array of sequential Dijkstra from vertex 0 on the same matrix.
GatheredEqualsSequential ==
    (ValidP /\ Finished) => global_dist = SeqDijkstra

\* Global vertex v is flagged known on the process that owns it.
Known(v) == loc_known[Owner(v)][Local(v)] = 1

\* The tentative distance of global vertex v on its owner.
Dist(v) == loc_dist[Owner(v)][Local(v)]

\* The vertices owned by some process (all of them when p divides n).
Owned == 0 .. (p * loc_n - 1)

\* Every process has entered the Allreduce of round k and none has returned.
StartOfRound(k) == \A r \in Ranks : pc[r] = "reduce" /\ i[r] = k

\* Every process stands between two rounds, k rounds completed.
BetweenRounds(k) == \A r \in Ranks : pc[r] \in {"loop", "done"} /\ i[r] = k

----------------------------------------------------------------------------
\* C2: in a round with winner U # -1 only the owner of U changes its known
\* array, setting exactly known[U mod loc_n]; the mark-known step leaves the
\* known array of every other process unchanged.
OnlyOwnerMarksKnown ==
    [][\A r \in Ranks :
         (ValidP /\ pc[r] = "reduce" /\ pc'[r] = "relax") =>
            LET U == glbl_min'[r][2]
            IN  IF r = Owner(U)
                THEN loc_known'[r] = [loc_known[r] EXCEPT ![Local(U)] = 1]
                ELSE loc_known'[r] = loc_known[r]]_vars

\* C3: after k completed rounds exactly k + 1 vertices are flagged known,
\* counted over all processes.
OneKnownPerRound ==
    \A k \in 0 .. n :
        (ValidP /\ BetweenRounds(k)) =>
            Cardinality({v \in Owned : Known(v)}) = k + 1

\* The round of the last Allreduce process r has returned from (-1: none).
ResultRound(r) ==
    IF pc[r] = "relax" THEN i[r]
    ELSE IF pc[r] \in {"done", "finished"} /\ i[r] < n - 1 THEN i[r]
    ELSE IF Initialized(r) THEN i[r] - 1
    ELSE 0 - 1

\* Pair a is at most pair b in the order of MPI_MINLOC.
MinLocLeq(a, b) == a[1] < b[1] \/ (a[1] = b[1] /\ a[2] <= b[2])

\* C4: the reduction of a round returns to every process the same pair, the
\* one of least distance among the p contributions of that round and, among
\* those of least distance, the one of least global vertex index.
ReduceReturnsGlobalMin ==
    \A r \in Ranks :
        ResultRound(r) >= 0 =>
            LET k == ResultRound(r)
            IN  /\ AllArrived(k)
                /\ \E q \in Ranks : glbl_min[r] = sent[q][k + 1]
                /\ \A q \in Ranks : MinLocLeq(glbl_min[r], sent[q][k + 1])
                /\ \A q \in Ranks :
                      ResultRound(q) = k => glbl_min[q] = glbl_min[r]

\* A reduction has returned a winner that another process's candidate tied
\* on distance.
ReduceTieWitness ==
    \E r, q1, q2 \in Ranks :
        /\ pc[r] = "relax" /\ i[r] >= 1
        /\ q1 # q2
        /\ sent[q1][i[r] + 1][1] = sent[q2][i[r] + 1][1]
        /\ sent[q1][i[r] + 1][1] < INFINITY
        /\ glbl_min[r] = sent[q1][i[r] + 1]

\* Vertex v is not known and no not-known vertex has a smaller distance.
MinimalUnknown(v) ==
    /\ ~Known(v)
    /\ Dist(v) < INFINITY
    /\ \A u \in Owned : ~Known(u) => Dist(v) <= Dist(u)

\* C5: when not-known vertices a < b both have the minimal tentative distance
\* at the start of a round, a (the least such vertex) is the one marked known
\* in that round and b is not marked known in it, for every valid p.
TieBreakLaw ==
    [][\A k \in 0 .. n : \A a, b \in Owned :
         (/\ ValidP /\ StartOfRound(k) /\ a < b
          /\ MinimalUnknown(a) /\ MinimalUnknown(b)
          /\ \A c \in Owned : MinimalUnknown(c) => a <= c)
         => /\ ~Known(b)'
            /\ pc'[Owner(a)] = "relax" => Known(a)']_vars

\* The vertices with a path from vertex 0 along edges of weight below INFINITY.
HasEdge(a, b) == mat[a * n + b] < INFINITY

RECURSIVE ReachFrom(_)
ReachFrom(S) ==
    LET T == S \cup {b \in Vertices : \E a \in S : HasEdge(a, b)}
    IN  IF T = S THEN S ELSE ReachFrom(T)

Unreachable == Vertices \ ReachFrom({0})

\* C6: if some vertex has no path from vertex 0, its final distance is
\* INFINITY, and every process leaves the main loop through the break, with
\* winner index -1 in a round where every process contributed the sentinel
\* (INFINITY, -1), after fewer than n - 1 completed rounds.
DisconnectedHandling ==
    ValidP =>
        /\ Unreachable # {} =>
              /\ Finished => \A v \in Unreachable : global_dist[v] = INFINITY
              /\ \A r \in Ranks :
                    pc[r] \in {"done", "finished"} =>
                        i[r] < n - 1 /\ glbl_min[r][2] = 0 - 1
        /\ \A r \in Ranks :
              (pc[r] \in {"done", "finished"} /\ glbl_min[r][2] = 0 - 1) =>
                  \A q \in Ranks : sent[q][i[r] + 1] = <<INFINITY, 0 - 1>>

\* A run of several processes on a disconnected graph has ended after at
\* least one completed round.
DisconnectedWitness ==
    /\ ValidP /\ p > 1 /\ Unreachable # {}
    /\ Finished
    /\ i[0] >= 1

\* C7: dist[v] never increases, and once known[v] is set neither dist[v] nor
\* pred[v] changes again.
Monotonicity ==
    [][\A r \in Ranks : \A v \in 0 .. (loc_n - 1) :
         Initialized(r) =>
            /\ loc_dist'[r][v] <= loc_dist[r][v]
            /\ loc_known[r][v] = 1 =>
                  /\ loc_dist'[r][v] = loc_dist[r][v]
                  /\ loc_pred'[r][v] = loc_pred[r][v]
                  /\ loc_known'[r][v] = 1]_vars

\* A process has lowered one distance below its initial value and is about to
\* relax again while holding a known vertex other than the source.
MonotonicityWitness ==
    \E r \in Ranks : \E v, w \in 0 .. (loc_n - 1) :
        /\ pc[r] = "relax" /\ i[r] >= 1
        /\ loc_dist[r][v] < loc_mat[r][v]
        /\ loc_known[r][w] = 1 /\ r * loc_n + w # 0

\* C8: when p does not divide n the run aborts before the matrix is
\* distributed: no process gets past the start of main().
AbortsBeforeDistribution ==
    (n % p # 0) => \A r \in Ranks : pc[r] = "start"

\* The number of Allreduce calls process r has returned from.
Returned(r) == Len(sent[r]) - (IF pc[r] = "reduce" THEN 1 ELSE 0)

Left(r) == pc[r] \in {"done", "finished"}

LockstepInv ==
    \A r, q \in Ranks :
        \* r has not passed a reduction q has not contributed to
        /\ Len(sent[q]) >= Returned(r)
        \* r is not waiting in a reduction that q, having left, never enters
        /\ (pc[r] = "reduce" /\ Left(q)) => Len(sent[q]) >= Len(sent[r])
        \* same number of reductions, same round and same way of leaving
        /\ (Left(r) /\ Left(q)) =>
              /\ Len(sent[r]) = Len(sent[q])
              /\ i[r] = i[q]
              /\ (glbl_min[r][2] = 0 - 1) = (glbl_min[q][2] = 0 - 1)
        /\ Left(r) => (i[r] = n - 1 \/ glbl_min[r][2] = 0 - 1)

\* C9: no process passes a global reduction before all p processes have
\* contributed to it, all processes perform the same number of reductions and
\* leave the main loop in the same round and the same way, and every process
\* eventually finishes.
Lockstep == []LockstepInv /\ <>Finished

\* Several processes have left the main loop together through the break after
\* at least one completed round.
LockstepWitness ==
    /\ ValidP /\ p > 1
    /\ \A r \in Ranks : pc[r] = "done" /\ i[r] >= 1 /\ i[r] < n - 1

\* The run in which all processes take each step together, round after round.
RECURSIVE SyncRounds(_, _, _, _)
SyncRounds(dist, pred, known, k) ==
    IF k >= n - 1 THEN [dist |-> dist, pred |-> pred]
    ELSE LET g == MinLoc({LocalMin(r, dist[r], Find_min_dist(dist[r], known[r])) :
                            r \in Ranks})
         IN  IF g[2] = 0 - 1 THEN [dist |-> dist, pred |-> pred]
             ELSE LET kn == [r \in Ranks |-> MarkKnown(known[r], r, g[2])]
                  IN  SyncRounds(
                        [r \in Ranks |->
                            RelaxDist(BlockColumn(r), dist[r], kn[r], g[2], g[1])],
                        [r \in Ranks |->
                            RelaxPred(BlockColumn(r), dist[r], pred[r], kn[r],
                                      g[2], g[1])],
                        kn, k + 1)

SyncRun ==
    SyncRounds([r \in Ranks |-> InitDist(BlockColumn(r))],
               [r \in Ranks |-> InitPred],
               [r \in Ranks |-> InitKnown(r)], 0)

\* C10: for a fixed matrix and a fixed valid p the final distance and
\* predecessor arrays are the same whatever the order in which the processes
\* take their steps: they are those of the run in which all step together.
ScheduleIndependent ==
    (ValidP /\ Finished) =>
        \A v \in Vertices :
            /\ global_dist[v] = SyncRun.dist[Owner(v)][Local(v)]
            /\ global_pred[v] = SyncRun.pred[Owner(v)][Local(v)]

\* A run of several processes has ended after two or more rounds in which
\* some distance was lowered through a winner.
ScheduleWitness ==
    /\ ValidP /\ p > 1 /\ Finished
    /\ i[0] >= 2
    /\ \E v \in Vertices : global_pred[v] # 0

----------------------------------------------------------------------------
\* The local vertices of r not flagged known, and those of them within reach.
NotKnown(r) == {v \in 0 .. (loc_n - 1) : loc_known[r][v] = 0}
Candidates(r) == {v \in NotKnown(r) : loc_dist[r][v] < INFINITY}

\* my_min[r] names local vertex v, which is of least distance among S.
NamesLeast(r, v, S) ==
    /\ my_min[r] = <<loc_dist[r][v], r * loc_n + v>>
    /\ \A u \in S : loc_dist[r][v] <= loc_dist[r][u]

\* C11 as stated: a process with a not-known vertex contributes (d, g), d the
\* least dist over its not-known vertices and g the global index of a vertex
\* attaining it; it contributes (INFINITY, -1) only when all its vertices are
\* known.
LocalMinOverNotKnown ==
    \A r \in Ranks :
        pc[r] = "reduce" =>
            /\ NotKnown(r) # {} =>
                  \E v \in NotKnown(r) : NamesLeast(r, v, NotKnown(r))
            /\ my_min[r] = <<INFINITY, 0 - 1>> => NotKnown(r) = {}

\* C11 as amended: a process with a not-known vertex of dist below INFINITY
\* contributes (d, g), d the least dist over its not-known vertices and g the
\* global index of a vertex attaining it; it contributes (INFINITY, -1)
\* exactly when it has no not-known vertex of dist below INFINITY.
LocalMinOverCandidates ==
    \A r \in Ranks :
        pc[r] = "reduce" =>
            /\ Candidates(r) # {} =>
                  \E v \in Candidates(r) : NamesLeast(r, v, NotKnown(r))
            /\ Candidates(r) = {} => my_min[r] = <<INFINITY, 0 - 1>>
            /\ my_min[r] = sent[r][i[r] + 1]

\* In a later round a process contributes a vertex while holding another
\* not-known vertex at INFINITY.
LocalMinWitness ==
    \E r \in Ranks :
        /\ pc[r] = "reduce" /\ i[r] >= 1
        /\ Candidates(r) # {}
        /\ NotKnown(r) # Candidates(r)

----------------------------------------------------------------------------
\* The sum of the input weights along the consecutive pairs of a sequence.
RECURSIVE PathWeight(_)
PathWeight(P) ==
    IF Len(P) <= 1 THEN 0
    ELSE mat[P[1] * n + P[2]] + PathWeight(Tail(P))

\* C12: at the end of the run, for every vertex v in 1..n-1 the printed
\* sequence is a path from 0 to v whose input weights sum to dist[v],
\* dist[v] = dist[pred[v]] + weight(pred[v], v), and for a reachable v this
\* is the shortest-path distance.
PathTableSound ==
    (ValidP /\ Finished) =>
        \A v \in 1 .. (n - 1) :
            LET P == PrintedPath(global_pred, v)
            IN  /\ ~PathWalk(global_pred, v, <<>>).overrun
                /\ P[1] = 0 /\ P[Len(P)] = v
                /\ PathWeight(P) = global_dist[v]
                /\ global_dist[v] =
                      global_dist[global_pred[v]] + mat[global_pred[v] * n + v]
                /\ v \in ReachFrom({0}) => global_dist[v] = SeqDijkstra[v]

----------------------------------------------------------------------------
\* A process whose allocation failed.
Failed(r) == pc[r] \in {"finalize", "exited"}

\* q is inside a collective that cannot return: the MPI_Scatter of a root
\* that never calls it, or an MPI_Allreduce a failed process never enters.
WaitsForever(q) ==
    \/ pc[q] = "reduce" /\ \E r \in Ranks : Failed(r)
    \/ q # 0 /\ pc[q] = "start" /\ Failed(0)

\* C13: when a worker fails to allocate its local arrays the run is aborted
\* for all workers: no state is reachable in which the failing worker has
\* exited while another worker waits in a later collective that cannot
\* return.
AllocFailureAbortsAll ==
    \A r, q \in Ranks : ~(pc[r] = "exited" /\ WaitsForever(q))

----------------------------------------------------------------------------
\* The values new_dist takes in the relaxation loop process r is about to
\* run: one for each local vertex that is not known.
NewDists(r) ==
    {NewDist(loc_mat[r], glbl_min[r][2], glbl_min[r][1], v) :
        v \in {u \in 0 .. (loc_n - 1) : loc_known[r][u] = 0}}

\* C14: with input weights in 0..INFINITY, every dist[v] of every worker is
\* in 0..INFINITY in every reachable state, and every new_dist computed in
\* the relax step is at most 2*INFINITY - 1 (and not negative), so the int
\* sum does not overflow.
DistanceBounds ==
    \A r \in Ranks :
        /\ Initialized(r) =>
              \A v \in 0 .. (loc_n - 1) : loc_dist[r][v] \in 0 .. INFINITY
        /\ pc[r] = "relax" =>
              \A d \in NewDists(r) : d \in 0 .. (2 * INFINITY - 1)

\* A relax step is about to compute the largest value, 2*INFINITY - 1.
DistanceBoundsWitness ==
    \E r \in Ranks :
        /\ pc[r] = "relax"
        /\ 2 * INFINITY - 1 \in NewDists(r)

----------------------------------------------------------------------------
\* C15: immediately after Dijkstra_Init on worker r, whose columns start at
\* r*loc_n, known[j] is true exactly for the local index of global vertex 0
\* (rank 0, local index 0), dist[j] is the input weight from vertex 0 to
\* global vertex r*loc_n + j, and pred[j] = 0, for every owned j.
InitializationLaw ==
    [][\A r \in Ranks :
          (pc[r] = "init" /\ pc'[r] = "loop") =>
              \A j \in 0 .. (loc_n - 1) :
                  /\ loc_known'[r][j] = (IF r * loc_n + j = 0 THEN 1 ELSE 0)
                  /\ loc_dist'[r][j] = mat[0 * n + r * loc_n + j]
                  /\ loc_pred'[r][j] = 0]_vars

\* A process other than rank 0 has just run Dijkstra_Init and owns a vertex
\* with an edge from vertex 0.
InitializationWitness ==
    \E r \in Ranks :
        /\ r >= 1 /\ pc[r] = "loop" /\ i[r] = 0 /\ sent[r] = <<>>
        /\ \E j \in 0 .. (loc_n - 1) : loc_dist[r][j] < INFINITY

----------------------------------------------------------------------------
\* C16: in a round with winner (D, U), the relax step of every worker sets,
\* for each owned vertex v that is not known, dist[v] to D + weight(U, v) and
\* pred[v] to U exactly when D + weight(U, v) < dist[v], where weight(U, v)
\* is the input weight from U to the global vertex of v, read from row U of
\* the worker's column block; dist and pred of every other owned vertex, and
\* the known flags, are unchanged.
RelaxLaw ==
    [][\A r \in Ranks :
          (pc[r] = "relax" /\ pc'[r] = "loop") =>
              LET D == glbl_min[r][1]
                  U == glbl_min[r][2]
              IN  /\ \A v \in 0 .. (loc_n - 1) :
                        LET w == mat[U * n + r * loc_n + v]
                        IN  /\ loc_mat[r][U * loc_n + v] = w
                            /\ IF loc_known[r][v] = 0 /\ D + w < loc_dist[r][v]
                               THEN /\ loc_dist'[r][v] = D + w
                                    /\ loc_pred'[r][v] = U
                               ELSE /\ loc_dist'[r][v] = loc_dist[r][v]
                                    /\ loc_pred'[r][v] = loc_pred[r][v]
                  /\ loc_known'[r] = loc_known[r]]_vars

\* A process other than rank 0 has completed a relax step that gave one of
\* its vertices a new predecessor.
RelaxWitness ==
    \E r \in Ranks :
        /\ r >= 1 /\ pc[r] = "loop" /\ i[r] >= 1
        /\ \E v \in 0 .. (loc_n - 1) : loc_pred[r][v] # 0

----------------------------------------------------------------------------
\* The consecutive pairs of a printed sequence.
Links(P) == {<<P[k], P[k + 1]>> : k \in 1 .. (Len(P) - 1)}

\* C17: for a vertex whose final distance is INFINITY the output presents no
\* sequence 0..v containing a pair of consecutive vertices whose input
\* weight is the no-edge sentinel.
UnreachableHasNoPath ==
    (ValidP /\ Finished) =>
        \A v \in 1 .. (n - 1) :
            global_dist[v] = INFINITY =>
                \A e \in Links(PrintedPath(global_pred, v)) :
                    mat[e[1] * n + e[2]] # INFINITY

----------------------------------------------------------------------------
\* The winner of round k, once every process has entered its reduction.
Winner(k) == MinLoc({Contribution(q, k) : q \in Ranks})

\* The rounds every process has entered and that have a winning vertex.
WonRounds ==
    {k \in 0 .. (n - 2) : AllArrived(k) /\ Winner(k)[2] # 0 - 1}

WinnersDistinct ==
    \A j, k \in WonRounds : j # k => Winner(j)[2] # Winner(k)[2]

\* A process leaves the reduction of a round with winner (D, U): U is not
\* vertex 0, D < INFINITY, (D, U) is what U's owner contributed, and when
\* the process is the owner (its arrays are as they were at the start of the
\* round) U is not marked known and D is dist of U.
WinnerStep ==
    \A r \in Ranks :
        (pc[r] = "reduce" /\ pc'[r] = "relax") =>
            LET D == glbl_min'[r][1]
                U == glbl_min'[r][2]
            IN  /\ U \in 1 .. (n - 1)
                /\ D < INFINITY
                /\ Owner(U) \in Ranks
                /\ Contribution(Owner(U), i[r]) = <<D, U>>
                /\ r = Owner(U) =>
                      /\ loc_known[r][Local(U)] = 0
                      /\ loc_dist[r][Local(U)] = D

KnownStays ==
    \A r \in Ranks :
        Initialized(r) =>
            \A v \in 0 .. (loc_n - 1) :
                loc_known[r][v] = 1 => loc_known'[r][v] = 1

\* C18: the winner U of any round (when U # -1) is never vertex 0 and is a
\* vertex its owner had not marked known at the start of the round, with D
\* its current dist and D < INFINITY; no vertex wins in two different rounds
\* and known flags are never reset.
WinnerLaw ==
    /\ [][WinnerStep /\ KnownStays]_vars
    /\ []WinnersDistinct

\* Two rounds have been won, the later one by a vertex of a process other
\* than rank 0, which has left that reduction.
WinnerWitness ==
    \E k \in WonRounds :
        /\ k >= 1
        /\ Owner(Winner(k)[2]) >= 1
        /\ pc[Owner(Winner(k)[2])] = "relax"
        /\ i[Owner(Winner(k)[2])] = k

----------------------------------------------------------------------------
\* The predecessor links as the processes hold them now.
PredNow == [v \in Vertices |-> loc_pred[Owner(v)][Local(v)]]

\* Following pred from every vertex reaches 0 within n - 1 steps, so the
\* loop of Print_paths stores at most n - 1 entries.
ReachesSource(pred) ==
    \A v \in Vertices :
        LET walk == PathWalk(pred, v, <<>>)
        IN  ~walk.overrun /\ Len(walk.path) <= n - 1

\* C19: in every reachable state with n divisible by p the predecessor
\* links have no cycle among 1..n-1: following pred from any vertex reaches
\* vertex 0 in at most n - 1 steps, so the loop of Print_paths terminates
\* and stays inside its buffer of n entries, zero-weight edges included.
NoPredCycle ==
    ValidP =>
        /\ (\A r \in Ranks : Initialized(r)) => ReachesSource(PredNow)
        /\ Finished => ReachesSource(global_pred)

\* The run has ended with a printed path of n - 1 >= 2 stored entries whose
\* edges all weigh 0.
NoPredCycleWitness ==
    /\ ValidP /\ Finished /\ n >= 3
    /\ \E v \in Vertices :
          /\ Len(PathWalk(global_pred, v, <<>>).path) = n - 1
          /\ \A e \in Links(PrintedPath(global_pred, v)) :
                mat[e[1] * n + e[2]] = 0

====
